---- MODULE Spec2Model ----
(***************************************************************************)
(* A model of the Parsefy client (src/src/parsefy/client.py): the input    *)
(* gate _prepare_file, the response decoder _parse_response, the schema    *)
(* projection _strip_titles, and the life of one client instance: its      *)
(* construction, the two calling conventions extract / extract_async, and  *)
(* its release by close, aclose or the end of a with / async with block.   *)
(*                                                                         *)
(* Text is modelled as a sequence of one-character strings so that the     *)
(* path operations (base name, suffix, lower-casing) are computed rather   *)
(* than assumed.  JSON values are tagged records: [t |-> "null"],          *)
(* [t |-> "int", i |-> 3], [t |-> "str", s |-> "x"], [t |-> "obj", o |-> f]*)
(* with f a function from key names to JSON values, and so on.             *)
(***************************************************************************)
EXTENDS Integers, Sequences, FiniteSets, TLC

VARIABLES
  file,      \* the file argument of the current call
  target,    \* the target type (the schema argument) of the current call
  prep,      \* what _prepare_file gave for `file`
  resp,      \* the HTTP response of the current call
  outcome,   \* what the call gave its caller: a result or a raised exception
  resp2,     \* `resp` with the `_meta` key taken out of its body
  outcome2,  \* what _parse_response gives for resp2
  pc,        \* where the current call stands
  mode,      \* "sync" for extract, "async" for extract_async
  client,    \* the Parsefy instance: credential, timeout and its two transports
  sent,      \* the requests the current call has issued, in order
  calls,     \* the number of calls started on the client
  threshold, \* the confidence_threshold argument of the current call
  environ,   \* what os.environ.get("PARSEFY_API_KEY") gives
  init_args, \* the arguments the constructor was called with
  scope,     \* the block the client is used in: "none", "with" or "async with"
  released,  \* the operation that released the client, "no" before
  earlier,   \* an earlier call kept for comparison with the current one
  json_schema, \* the schema tree _strip_titles works on
  before,    \* the tree as it was before _strip_titles
  once       \* the tree after the first _strip_titles

vars ==
  <<file, target, prep, resp, outcome, resp2, outcome2, pc, mode, client, sent, calls,
    threshold, environ, init_args, scope, released, earlier, json_schema, before, once>>

(***************************************************************************)
(* Bounds of the model.                                                    *)
(***************************************************************************)
\* longest explicit prefix of a file's content (the rest is filler bytes)
MaxHead == 1
\* longest field_confidence list of a response
MaxFieldConfidence == 1
\* number of extract / extract_async calls made on one client
MaxCalls == 2
\* nesting depth of the schema trees _strip_titles is tried on
MaxDepth == 3

(***************************************************************************)
(* Text helpers.                                                           *)
(***************************************************************************)
\* str.lower() on one character, for the alphabet the inputs use
LowerChar(c) ==
  CASE c = "P" -> "p"
    [] c = "D" -> "d"
    [] c = "F" -> "f"
    [] c = "O" -> "o"
    [] c = "C" -> "c"
    [] c = "X" -> "x"
    [] OTHER -> c

Lower(s) == [i \in DOMAIN s |-> LowerChar(s[i])]

\* str.rfind(ch), 1-based; 0 when ch does not occur
RFind(s, ch) ==
  LET hits == {i \in DOMAIN s : s[i] = ch}
  IN IF hits = {} THEN 0 ELSE CHOOSE i \in hits : \A j \in hits : j <= i

\* pathlib: PurePath.name, the final path component
PathName(p) == SubSeq(p, RFind(p, "/") + 1, Len(p))

\* pathlib: PurePath.suffix of a final component: the text from the last dot,
\* unless that dot is the first or the last character of the name
NameSuffix(name) ==
  LET i == RFind(name, ".")
  IN IF 1 < i /\ i < Len(name) THEN SubSeq(name, i, Len(name)) ELSE <<>>

PathSuffix(p) == NameSuffix(PathName(p))

(***************************************************************************)
(* Module constants of client.py.                                          *)
(***************************************************************************)
PDF_MIME == "application/pdf"
DOCX_MIME == "application/vnd.openxmlformats-officedocument.wordprocessingml.document"

DotPdf == <<".", "p", "d", "f">>
DotDocx == <<".", "d", "o", "c", "x">>

\* MIME_TYPES: the dict of supported suffixes
MIME_TYPES == (DotPdf :> PDF_MIME) @@ (DotDocx :> DOCX_MIME)

MAX_FILE_SIZE == 10 * 1024 * 1024

BASE_URL == "https://api.parsefy.io"

DEFAULT_CONFIDENCE_THRESHOLD == "0.85"

\* the placeholder file name "document.pdf"
DocumentPdf == <<"d", "o", "c", "u", "m", "e", "n", "t", ".", "p", "d", "f">>

(***************************************************************************)
(* File arguments.  A content is an explicit head of bytes followed by     *)
(* `fill` filler bytes, so that contents of 10 MiB are representable.      *)
(***************************************************************************)
Bytes == {37, 120}

Heads == UNION {[1..n -> Bytes] : n \in 0..MaxHead}

Fills == {0, 1, MAX_FILE_SIZE - MaxHead, MAX_FILE_SIZE - 1, MAX_FILE_SIZE,
          MAX_FILE_SIZE + 1, 11 * 1024 * 1024}

Contents == [head : Heads, fill : Fills]

\* len(file_bytes)
ByteLen(c) == Len(c.head) + c.fill

Dirs == {<<>>, <<"t", "/">>}

Stems == {<<>>, <<"a">>, <<"a", ".", "b">>}

Exts == {<<>>, <<".">>, DotPdf, <<".", "P", "D", "F">>, DotDocx, <<".", "D", "o", "c", "X">>,
         <<".", "t", "x", "t">>, <<".", "d", "o", "c">>, <<".", "p", "d", "f", "x">>}

\* paths with a final component of their own (pathlib normalises "t/" and "t/.")
Names == {n \in {d \o s \o e : d \in Dirs, s \in Stems, e \in Exts} : PathName(n) \notin {<<>>, <<".">>}}

NoName == <<>>

\* kind "str" / "Path": a path on the file system, which holds `content` there
\* when `exists`; kind "bytes": a raw buffer; kind "stream": an open binary
\* stream, with a name attribute when `named`
PathFiles == [kind : {"str", "Path"}, name : Names, named : {TRUE}, exists : BOOLEAN, content : Contents]

BytesFiles == [kind : {"bytes"}, name : {NoName}, named : {FALSE}, exists : {TRUE}, content : Contents]

StreamFiles ==
  [kind : {"stream"}, name : Names, named : {TRUE}, exists : {TRUE}, content : Contents]
  \cup [kind : {"stream"}, name : {NoName}, named : {FALSE}, exists : {TRUE}, content : Contents]

Files == PathFiles \cup BytesFiles \cup StreamFiles

NoFile == [kind |-> "none"]

(***************************************************************************)
(* _prepare_file                                                           *)
(***************************************************************************)
NoPrep == [st |-> "none"]

Raise(exc, msg) == [st |-> "raise", exc |-> exc, msg |-> msg]

Prepared(filename, file_bytes, content_type) ==
  [st |-> "ok", filename |-> filename, file_bytes |-> file_bytes, content_type |-> content_type]

\* SizeCheck with the ceiling tested by >= : a file of exactly MAX_FILE_SIZE
\* bytes is turned away
SizeCheck_CeilingExcluded(filename, file_bytes, content_type) ==
  IF ByteLen(file_bytes) = 0
  THEN Raise("ValidationError", "File is empty.")
  ELSE IF ByteLen(file_bytes) >= MAX_FILE_SIZE
  THEN Raise("ValidationError", "File size exceeds maximum allowed size.")
  ELSE Prepared(filename, file_bytes, content_type)

\* the two size checks that close _prepare_file
SizeCheck(filename, file_bytes, content_type) ==
  IF ByteLen(file_bytes) = 0
  THEN Raise("ValidationError", "File is empty.")
  ELSE IF ByteLen(file_bytes) > MAX_FILE_SIZE
  THEN Raise("ValidationError", "File size exceeds maximum allowed size.")
  ELSE Prepared(filename, file_bytes, content_type)

\* PreparePath with the whole path, not its final component, as the file name
PreparePath_WholePath(f) ==
  IF ~f.exists
  THEN Raise("ValidationError", "File not found")
  ELSE LET suffix == Lower(PathSuffix(f.name))
       IN IF suffix \notin DOMAIN MIME_TYPES
          THEN Raise("ValidationError", "Unsupported file type")
          ELSE SizeCheck(f.name, f.content, MIME_TYPES[suffix])

\* the isinstance(file, (str, Path)) branch
PreparePath(f) ==
  IF ~f.exists
  THEN Raise("ValidationError", "File not found")
  ELSE LET suffix == Lower(PathSuffix(f.name))
       IN IF suffix \notin DOMAIN MIME_TYPES
          THEN Raise("ValidationError", "Unsupported file type")
          ELSE SizeCheck(PathName(f.name), f.content, MIME_TYPES[suffix])

\* the isinstance(file, bytes) branch
PrepareBytes(f) == SizeCheck(DocumentPdf, f.content, PDF_MIME)

\* the file-like branch: the name attribute is used as it is, and an unknown
\* suffix falls back to PDF
PrepareStream(f) ==
  LET filename == IF f.named THEN f.name ELSE DocumentPdf
      suffix == Lower(PathSuffix(filename))
      content_type == IF suffix \in DOMAIN MIME_TYPES THEN MIME_TYPES[suffix] ELSE PDF_MIME
  IN SizeCheck(filename, f.content, content_type)

PrepareFile(f) ==
  IF f.kind \in {"str", "Path"} THEN PreparePath(f)
  ELSE IF f.kind = "bytes" THEN PrepareBytes(f)
  ELSE PrepareStream(f)

(***************************************************************************)
(* JSON values and the Python operations _parse_response applies to them.  *)
(* A float is held in hundredths: JFloat(95) is 0.95.                      *)
(***************************************************************************)
JNull == [t |-> "null"]

JBool(b) == [t |-> "bool", b |-> b]

JInt(i) == [t |-> "int", i |-> i]

JFloat(h) == [t |-> "float", h |-> h]

JStr(s) == [t |-> "str", s |-> s]

JList(l) == [t |-> "list", l |-> l]

JObj(o) == [t |-> "obj", o |-> o]

EmptyObj == JObj([k \in {} |-> JNull])

\* Python None
None == JNull

\* the outcome of evaluating an expression: a value, or a raised exception
Val(v) == [st |-> "val", v |-> v]

IsRaise(r) == r.st = "raise"

HasKey(v, k) == v.t = "obj" /\ k \in DOMAIN v.o

\* Python truthiness: bool(v)
Truthy(v) ==
  CASE v.t = "null" -> FALSE
    [] v.t = "bool" -> v.b
    [] v.t = "int" -> v.i # 0
    [] v.t = "float" -> v.h # 0
    [] v.t = "str" -> v.s # ""
    [] v.t = "list" -> v.l # <<>>
    [] v.t = "obj" -> DOMAIN v.o # {}

\* v[k] for a string key k: KeyError on a dict without the key, TypeError on
\* everything that is not a dict
Subscript(v, k) ==
  IF v.t = "obj"
  THEN IF k \in DOMAIN v.o THEN Val(v.o[k]) ELSE Raise("KeyError", k)
  ELSE Raise("TypeError", k)

\* v[k1][k2], evaluated left to right
Subscript2(v, k1, k2) ==
  LET a == Subscript(v, k1)
  IN IF IsRaise(a) THEN a ELSE Subscript(a.v, k2)

\* v.get(k, default): only a dict has the method
Get(v, k, default) ==
  IF v.t = "obj"
  THEN Val(IF k \in DOMAIN v.o THEN v.o[k] ELSE default)
  ELSE Raise("AttributeError", k)

\* the first raised outcome of a sequence of outcomes evaluated in order
FirstRaise(rs) ==
  LET bad == {i \in DOMAIN rs : IsRaise(rs[i])}
  IN rs[CHOOSE i \in bad : \A j \in bad : i <= j]

AnyRaise(rs) == \E i \in DOMAIN rs : IsRaise(rs[i])

\* `for x in v`: the elements of a list, the keys of a dict, the characters of
\* a string (a non-empty string is held whole: its characters are strings
\* again); anything else is not iterable
Iterate(v) ==
  CASE v.t = "list" -> Val(v.l)
    [] v.t = "obj" ->
         LET ks == DOMAIN v.o
             RECURSIVE Enum(_)
             Enum(S) == IF S = {} THEN <<>>
                        ELSE LET k == CHOOSE x \in S : TRUE
                             IN <<JStr(k)>> \o Enum(S \ {k})
         IN Val(Enum(ks))
    [] v.t = "str" -> Val(IF v.s = "" THEN <<>> ELSE <<v>>)
    [] OTHER -> Raise("TypeError", "not iterable")

(***************************************************************************)
(* pydantic field validation in its default (lax) mode, for the value      *)
(* kinds of the model.                                                     *)
(***************************************************************************)
Invalid == Raise("pydantic.ValidationError", "field")

\* strings that parse as an integer
IntStrings == ("42" :> 42) @@ ("2" :> 2)

ValidStr(v) == IF v.t = "str" THEN Val(v) ELSE Invalid

ValidInt(v) ==
  CASE v.t = "int" -> Val(v)
    [] v.t = "bool" -> Val(JInt(IF v.b THEN 1 ELSE 0))
    [] v.t = "float" -> IF v.h % 100 = 0 THEN Val(JInt(v.h \div 100)) ELSE Invalid
    [] v.t = "str" -> IF v.s \in DOMAIN IntStrings THEN Val(JInt(IntStrings[v.s])) ELSE Invalid
    [] OTHER -> Invalid

ValidFloat(v) ==
  CASE v.t = "float" -> Val(v)
    [] v.t = "int" -> Val(JFloat(100 * v.i))
    [] v.t = "bool" -> Val(JFloat(IF v.b THEN 100 ELSE 0))
    [] v.t = "str" -> IF v.s \in DOMAIN IntStrings THEN Val(JFloat(100 * IntStrings[v.s])) ELSE Invalid
    [] OTHER -> Invalid

ValidBool(v) ==
  CASE v.t = "bool" -> Val(v)
    [] v.t = "int" -> IF v.i \in {0, 1} THEN Val(JBool(v.i = 1)) ELSE Invalid
    [] v.t = "float" -> IF v.h \in {0, 100} THEN Val(JBool(v.h = 100)) ELSE Invalid
    [] v.t = "str" -> IF v.s \in {"true", "false"} THEN Val(JBool(v.s = "true")) ELSE Invalid
    [] OTHER -> Invalid

\* Optional[...]: None passes, anything else goes to the inner validator
ValidOptInt(v) == IF v.t = "null" THEN Val(v) ELSE ValidInt(v)

ValidOptStr(v) == IF v.t = "null" THEN Val(v) ELSE ValidStr(v)

\* list[str]
ValidStrList(v) ==
  IF v.t # "list" THEN Invalid
  ELSE IF \E i \in DOMAIN v.l : v.l[i].t # "str" THEN Invalid
  ELSE Val(v)

(***************************************************************************)
(* The pydantic models of types.py and the caller's target types.          *)
(***************************************************************************)
\* FieldConfidence(field=, score=, reason=, page=, text=)
FieldConfidence(field, score, reason, page, text) ==
  LET rs == <<ValidStr(field), ValidFloat(score), ValidStr(reason), ValidOptInt(page), ValidOptStr(text)>>
  IN IF AnyRaise(rs) THEN Raise("pydantic.ValidationError", "FieldConfidence")
     ELSE Val([field |-> rs[1].v, score |-> rs[2].v, reason |-> rs[3].v, page |-> rs[4].v, text |-> rs[5].v])

\* ExtractionMeta(confidence_score=, field_confidence=, issues=); the entries of
\* field_confidence are FieldConfidence instances already
ExtractionMeta(confidence_score, field_confidence, issues) ==
  LET rs == <<ValidFloat(confidence_score), ValidStrList(issues)>>
  IN IF AnyRaise(rs) THEN Raise("pydantic.ValidationError", "ExtractionMeta")
     ELSE Val([confidence_score |-> rs[1].v, field_confidence |-> field_confidence, issues |-> rs[2].v.l])

\* ExtractionMetadata has three fields; any other keyword is ignored
ExtractionMetadata(processing_time_ms, input_tokens, output_tokens, credits, fallback_triggered) ==
  LET rs == <<ValidInt(processing_time_ms), ValidInt(credits), ValidBool(fallback_triggered)>>
  IN IF AnyRaise(rs) THEN Raise("pydantic.ValidationError", "ExtractionMetadata")
     ELSE Val([processing_time_ms |-> rs[1].v, credits |-> rs[2].v, fallback_triggered |-> rs[3].v])

\* APIErrorDetail(code=, message=)
APIErrorDetail(code, message) ==
  LET rs == <<ValidStr(code), ValidStr(message)>>
  IN IF AnyRaise(rs) THEN Raise("pydantic.ValidationError", "APIErrorDetail")
     ELSE Val([code |-> rs[1].v, message |-> rs[2].v])

\* the target types of the test suite: SampleSchema and SampleSchemaWithOptional
SampleFields ==
  <<[name |-> "name", type |-> "str", required |-> TRUE, description |-> "A name field"],
    [name |-> "value", type |-> "int", required |-> TRUE, description |-> "A numeric value"]>>

SampleSchema ==
  [title |-> "SampleSchema", doc |-> "Sample schema for testing.", fields |-> SampleFields]

SampleSchemaWithOptional ==
  [title |-> "SampleSchemaWithOptional", doc |-> "Sample schema with optional field for testing.",
   fields |-> SampleFields \o
     <<[name |-> "notes", type |-> "optstr", required |-> FALSE, description |-> "Optional notes"]>>]

TargetTypes == {SampleSchema, SampleSchemaWithOptional}

\* a user's target type with a field named `title`
Article ==
  [title |-> "Article", doc |-> "A news article.",
   fields |-> <<[name |-> "title", type |-> "str", required |-> TRUE, description |-> "Headline of the article"],
                [name |-> "value", type |-> "int", required |-> TRUE, description |-> "A numeric value"]>>]

\* the target types the schema projection is tried with
SchemaTypes == TargetTypes \cup {Article}

NoTarget == [title |-> "none"]

ValidField(type, v) ==
  CASE type = "str" -> ValidStr(v)
    [] type = "int" -> ValidInt(v)
    [] type = "optstr" -> ValidOptStr(v)

\* schema.model_validate(obj): every declared field is validated, a missing
\* optional field takes its default None, undeclared keys are ignored
ModelValidate(schema, obj) ==
  IF obj.t # "obj" THEN Raise("pydantic.ValidationError", "target type")
  ELSE LET fs == schema.fields
           rs == [i \in DOMAIN fs |->
                    IF fs[i].name \in DOMAIN obj.o
                    THEN ValidField(fs[i].type, obj.o[fs[i].name])
                    ELSE IF fs[i].required THEN Invalid ELSE Val(None)]
           names == {fs[i].name : i \in DOMAIN fs}
           idx(n) == CHOOSE i \in DOMAIN fs : fs[i].name = n
       IN IF AnyRaise(rs) THEN Raise("pydantic.ValidationError", "target type")
          ELSE Val([t |-> "model", o |-> [n \in names |-> rs[idx(n)].v]])

(***************************************************************************)
(* _parse_response                                                         *)
(***************************************************************************)
NoOutcome == [st |-> "none"]

\* raise APIError(message=..., status_code=..., response=...)
APIError(status_code, response) ==
  [st |-> "raise", exc |-> "APIError", msg |-> "API request failed with status",
   status_code |-> status_code, response |-> response]

\* ExtractResult[T](data=, meta=, metadata=, error=): verification is not
\* passed and keeps its default None
ExtractResult(data, meta, metadata, error) ==
  [st |-> "result", data |-> data, meta |-> meta, metadata |-> metadata,
   verification |-> None, error |-> error]

\* response.json(): the decoded body, or an exception when the body is not JSON
ResponseJson(response) ==
  IF response.isJson THEN Val(response.json) ELSE Raise("JSONDecodeError", "body")

\* IsErrorStatus with only the 4xx and 5xx statuses taken as errors
IsErrorStatus_From400(status_code) == status_code >= 400

\* the status test that opens _parse_response
IsErrorStatus(status_code) == status_code # 200

\* lines 189-198: best-effort capture of the error body
ParseErrorResponse(response) ==
  LET j == ResponseJson(response)
      error_detail == IF IsRaise(j) THEN JStr(response.text) ELSE j.v
  IN APIError(response.status_code, error_detail)

\* lines 202-208
ParseMetadata(data) ==
  LET args == <<Subscript2(data, "metadata", "processing_time_ms"),
                Subscript2(data, "metadata", "input_tokens"),
                Subscript2(data, "metadata", "output_tokens"),
                Subscript2(data, "metadata", "credits"),
                Subscript2(data, "metadata", "fallback_triggered")>>
  IN IF AnyRaise(args) THEN FirstRaise(args)
     ELSE ExtractionMetadata(args[1].v, args[2].v, args[3].v, args[4].v, args[5].v)

\* one element of the list comprehension of lines 214-223
ParseFieldConfidence(fc) ==
  LET args == <<Subscript(fc, "field"), Subscript(fc, "score"), Subscript(fc, "reason"),
                Subscript(fc, "page"), Subscript(fc, "text")>>
  IN IF AnyRaise(args) THEN FirstRaise(args)
     ELSE FieldConfidence(args[1].v, args[2].v, args[3].v, args[4].v, args[5].v)

\* lines 213-228: the body of `if data.get("_meta"):`
DecodeMeta(meta_data) ==
  LET fcs == Get(meta_data, "field_confidence", JList(<<>>))
      it == IF IsRaise(fcs) THEN fcs ELSE Iterate(fcs.v)
  IN IF IsRaise(it) THEN it
     ELSE LET items == [i \in DOMAIN it.v |-> ParseFieldConfidence(it.v[i])]
          IN IF AnyRaise(items) THEN FirstRaise(items)
             ELSE LET field_confidence == [i \in DOMAIN items |-> items[i].v]
                      cs == Subscript(meta_data, "confidence_score")
                      issues == Get(meta_data, "issues", JList(<<>>))
                  IN IF IsRaise(cs) THEN cs
                     ELSE IF IsRaise(issues) THEN issues
                     ELSE ExtractionMeta(cs.v, field_confidence, issues.v)

\* ParseMeta with the block read by data["_meta"] instead of data.get("_meta")
ParseMeta_Subscript(data) ==
  LET g == Subscript(data, "_meta")
  IN IF IsRaise(g) THEN g
     ELSE IF ~Truthy(g.v) THEN Val(None)
     ELSE DecodeMeta(g.v)

\* lines 211-228
ParseMeta(data) ==
  LET g == Get(data, "_meta", None)
  IN IF IsRaise(g) THEN g
     ELSE IF ~Truthy(g.v) THEN Val(None)
     ELSE DecodeMeta(g.v)

\* lines 230-235
ParseError(data) ==
  LET g == Get(data, "error", None)
  IN IF IsRaise(g) THEN g
     ELSE IF ~Truthy(g.v) THEN Val(None)
     ELSE LET args == <<Subscript2(data, "error", "code"), Subscript2(data, "error", "message")>>
          IN IF AnyRaise(args) THEN FirstRaise(args)
             ELSE APIErrorDetail(args[1].v, args[2].v)

\* lines 237-239
ParseObject(data, schema) ==
  LET g == Get(data, "object", None)
  IN IF IsRaise(g) THEN g
     ELSE IF g.v = None THEN Val(None)
     ELSE ModelValidate(schema, g.v)

\* lines 200-246: the decoding steps in the order of the code; the first one
\* that raises ends the call
DecodeBody(response, schema) ==
  LET j == ResponseJson(response)
  IN IF IsRaise(j) THEN j
     ELSE LET data == j.v
              metadata == ParseMetadata(data)
              meta == ParseMeta(data)
              error == ParseError(data)
              extracted_data == ParseObject(data, schema)
              steps == <<metadata, meta, error, extracted_data>>
          IN IF AnyRaise(steps) THEN FirstRaise(steps)
             ELSE ExtractResult(extracted_data.v, meta.v, metadata.v, error.v)

ParseResponse(response, schema) ==
  IF IsErrorStatus(response.status_code)
  THEN ParseErrorResponse(response)
  ELSE DecodeBody(response, schema)

(***************************************************************************)
(* Responses.  A body is built block by block; "absent" leaves the key out.*)
(***************************************************************************)
Absent == [t |-> "absent"]

\* a JSON object from a set of keys and a function giving each key's value or
\* Absent
ObjOf(f) == JObj([k \in {x \in DOMAIN f : f[x] # Absent} |-> f[k]])

WithoutKey(v, k) == IF v.t = "obj" THEN JObj([x \in DOMAIN v.o \ {k} |-> v.o[x]]) ELSE v

WireMetadata(ptm, credits, fb) ==
  ("processing_time_ms" :> JInt(ptm)) @@ ("credits" :> JInt(credits)) @@ ("fallback_triggered" :> JBool(fb))

TokenCounts == ("input_tokens" :> JInt(100)) @@ ("output_tokens" :> JInt(50))

MetadataBlocks ==
  { Absent, JNull,
    JObj(WireMetadata(1500, 1, FALSE)),
    JObj(WireMetadata(500, 2, TRUE)),
    JObj(WireMetadata(1500, 1, FALSE) @@ TokenCounts),
    JObj(WireMetadata(500, 2, TRUE) @@ TokenCounts),
    JObj(WireMetadata(1500, 1, FALSE) @@ ("input_tokens" :> JInt(100))),
    JObj(("credits" :> JStr("many")) @@ WireMetadata(1500, 1, FALSE) @@ TokenCounts),
    WithoutKey(JObj(WireMetadata(1500, 1, FALSE) @@ TokenCounts), "credits") }

FCEntry(score, page, text) ==
  ("field" :> JStr("$.name")) @@ ("score" :> score) @@ ("reason" :> JStr("Exact match"))
    @@ ("page" :> page) @@ ("text" :> text)

FCEntries ==
  { JObj(FCEntry(JFloat(98), JInt(1), JStr("Test"))),
    JObj(FCEntry(JFloat(40), JNull, JNull)),
    JObj(FCEntry(JInt(1), JInt(1), JStr("Test"))),
    JObj(FCEntry(JFloat(150), JInt(1), JStr("Test"))),
    JObj(FCEntry(JStr("high"), JInt(1), JStr("Test"))),
    WithoutKey(JObj(FCEntry(JFloat(98), JInt(1), JStr("Test"))), "page") }

FCLists == UNION {[1..n -> FCEntries] : n \in 0..MaxFieldConfidence}

MetaObj(cs, fc, issues) ==
  ObjOf(("confidence_score" :> cs) @@ ("field_confidence" :> fc) @@ ("issues" :> issues))

MetaBlocks ==
  { Absent, JNull, EmptyObj, JStr("n/a") }
  \cup { MetaObj(JFloat(95), JList(l), Absent) : l \in FCLists }
  \cup { MetaObj(cs, fc, issues) :
           cs \in {JFloat(30), JFloat(150), JStr("high"), Absent},
           fc \in {Absent, JList(<<>>)},
           issues \in {JList(<<>>), JList(<<JStr("Could not identify invoice number")>>)} }

ErrorObj(code, message) == ObjOf(("code" :> code) @@ ("message" :> message))

ErrorBlocks ==
  { Absent, JNull, EmptyObj, JStr("failed"),
    ErrorObj(JStr("EXTRACTION_FAILED"), JStr("Could not extract data from document")),
    ErrorObj(JStr("LOW_CONFIDENCE"), JStr("Below threshold")),
    ErrorObj(JStr("EXTRACTION_FAILED"), Absent),
    ErrorObj(JInt(5), JStr("Could not extract data from document")) }

ObjectBlocks ==
  { Absent, JNull,
    JObj(("name" :> JStr("Test")) @@ ("value" :> JInt(42))),
    JObj(("name" :> JStr("Other")) @@ ("value" :> JStr("42")) @@ ("notes" :> JStr("n"))),
    JObj(("name" :> JStr("Test"))),
    JObj(("name" :> JInt(7)) @@ ("value" :> JInt(42))) }

VerificationCheck ==
  JObj(("type" :> JStr("HORIZONTAL_SUM")) @@ ("status" :> JStr("PASSED"))
       @@ ("fields" :> JList(<<JStr("total"), JStr("subtotal"), JStr("tax")>>))
       @@ ("passed" :> JBool(TRUE)) @@ ("delta" :> JFloat(0))
       @@ ("expected" :> JFloat(125000)) @@ ("actual" :> JFloat(125000)))

VerificationObj(status, passed, failed, cannot, checks) ==
  JObj(("status" :> JStr(status)) @@ ("checks_passed" :> JInt(passed)) @@ ("checks_failed" :> JInt(failed))
       @@ ("cannot_verify_count" :> JInt(cannot)) @@ ("checks_run" :> JList(checks)))

VerificationBlocks ==
  { Absent,
    VerificationObj("PASSED", 1, 0, 0, <<VerificationCheck>>),
    VerificationObj("NO_RULES", 0, 0, 0, <<>>) }

Body(metadata, meta, error, object, verification) ==
  ObjOf(("metadata" :> metadata) @@ ("_meta" :> meta) @@ ("error" :> error)
        @@ ("object" :> object) @@ ("verification" :> verification))

Bodies ==
  { Body(md, m, e, o, v) :
      md \in MetadataBlocks, m \in MetaBlocks, e \in ErrorBlocks, o \in ObjectBlocks,
      v \in VerificationBlocks }

Response(status_code, isJson, json, text) ==
  [status_code |-> status_code, isJson |-> isJson, json |-> json, text |-> text]

JsonResponse(status_code, json) == Response(status_code, TRUE, json, "")

TextResponse(status_code, text) == Response(status_code, FALSE, JNull, text)

\* a body of the wire contract, as the test suite builds it, and the same body
\* with the two token counts
WireBody ==
  Body(JObj(WireMetadata(1500, 1, FALSE)), MetaObj(JFloat(95), JList(<<>>), Absent), JNull,
       JObj(("name" :> JStr("Test")) @@ ("value" :> JInt(42))), Absent)

TokenBody ==
  Body(JObj(WireMetadata(1500, 1, FALSE) @@ TokenCounts), MetaObj(JFloat(95), JList(<<>>), Absent),
       JNull, JObj(("name" :> JStr("Test")) @@ ("value" :> JInt(42))), Absent)

OtherStatuses == {100, 199, 201, 204, 299, 300, 401, 404, 500}

\* bodies a response with another status than 200 is tried with
FewBodies ==
  { WireBody, TokenBody, JObj(("error" :> JStr("Unauthorized"))), JList(<<JInt(1)>>), JNull }

Responses ==
  { JsonResponse(200, b) : b \in Bodies \cup {JList(<<JInt(1)>>)} }
  \cup { TextResponse(st, txt) : st \in {200} \cup OtherStatuses, txt \in {"", "Unauthorized"} }
  \cup { JsonResponse(st, b) : st \in OtherStatuses, b \in FewBodies }

NoResponse == [status_code |-> 0]

(***************************************************************************)
(* The wire schema: schema.model_json_schema() followed by _strip_titles.  *)
(***************************************************************************)
\* pydantic's title of a field: the field name, capitalised
FieldTitle(name) ==
  CASE name = "name" -> "Name"
    [] name = "value" -> "Value"
    [] name = "notes" -> "Notes"
    [] name = "title" -> "Title"

\* pydantic's JSON Schema of one field
FieldSchema(fld) ==
  LET common == ("description" :> JStr(fld.description)) @@ ("title" :> JStr(FieldTitle(fld.name)))
  IN CASE fld.type = "str" -> JObj(common @@ ("type" :> JStr("string")))
       [] fld.type = "int" -> JObj(common @@ ("type" :> JStr("integer")))
       [] fld.type = "optstr" ->
            JObj(common @@ ("default" :> JNull)
                 @@ ("anyOf" :> JList(<<JObj("type" :> JStr("string")), JObj("type" :> JStr("null"))>>)))

\* schema.model_json_schema()
ModelJsonSchema(schema) ==
  LET fs == schema.fields
      names == {fs[i].name : i \in DOMAIN fs}
      idx(n) == CHOOSE i \in DOMAIN fs : fs[i].name = n
      req == SelectSeq(fs, LAMBDA fld : fld.required)
  IN JObj(("description" :> JStr(schema.doc))
          @@ ("properties" :> JObj([n \in names |-> FieldSchema(fs[idx(n)])]))
          @@ ("required" :> JList([i \in DOMAIN req |-> JStr(req[i].name)]))
          @@ ("title" :> JStr(schema.title))
          @@ ("type" :> JStr("object")))

\* StripTitles going into the values of mappings only, not into lists
RECURSIVE StripTitles_SkipsLists(_)
StripTitles_SkipsLists(v) ==
  CASE v.t = "obj" -> JObj([k \in DOMAIN v.o \ {"title"} |-> StripTitles_SkipsLists(v.o[k])])
    [] OTHER -> v

\* _strip_titles: the tree as the in-place deletion leaves it
RECURSIVE StripTitles(_)
StripTitles(v) ==
  CASE v.t = "obj" -> JObj([k \in DOMAIN v.o \ {"title"} |-> StripTitles(v.o[k])])
    [] v.t = "list" -> JList([i \in DOMAIN v.l |-> StripTitles(v.l[i])])
    [] OTHER -> v

\* json.dumps(v): the JSON text of v
JsonDumps(v) == [t |-> "text", of |-> v]

(***************************************************************************)
(* The client and its calls.                                               *)
(***************************************************************************)
DefaultTimeout == 60

\* the api_key argument of the constructor, and the values os.environ.get
\* gives for PARSEFY_API_KEY
ApiKeyArgs == {None, JStr(""), JStr("test_key")}

EnvValues == {None, JStr(""), JStr("env_key")}

Timeouts == {DefaultTimeout, 120}

Thresholds == {DEFAULT_CONFIDENCE_THRESHOLD, "0.9"}

\* Python's `a or b`
Or(a, b) == IF Truthy(a) THEN a ELSE b

\* f"Bearer {api_key}"
Bearer(api_key) == <<"Bearer ", api_key.s>>

\* httpx.Client(timeout=..., headers={"Authorization": ...}) and
\* httpx.AsyncClient(...): an open transport with its timeout and headers
Transport(timeout, authorization) ==
  [timeout |-> timeout, headers |-> [Authorization |-> authorization], is_closed |-> FALSE]

\* ResolveApiKey reading the environment before the argument
ResolveApiKey_EnvFirst(api_key, env) == Or(env, api_key)

\* api_key or os.environ.get("PARSEFY_API_KEY")
ResolveApiKey(api_key, env) == Or(api_key, env)

NoClient == [api_key |-> None]

NoArgs == [api_key |-> None, timeout |-> 0]

\* __init__(api_key, timeout=timeout) with PARSEFY_API_KEY giving env: the
\* instance with its blocking transport, or the ValidationError raised before
\* any transport exists
NewClient(api_key, env, timeout) ==
  LET key == ResolveApiKey(api_key, env)
  IN IF ~Truthy(key)
     THEN Raise("ValidationError",
                "API key is required. Pass it directly or set PARSEFY_API_KEY environment variable.")
     ELSE Val([api_key |-> key,
               timeout |-> timeout,
               sync_client |-> Transport(timeout, Bearer(key)),
               async_client |-> None])

\* GetAsyncClient building the transport with httpx's own timeout of 5 seconds
\* in place of the client's
GetAsyncClient_NoTimeout(c) ==
  IF c.async_client = None
  THEN [c EXCEPT !.async_client = Transport(5, Bearer(c.api_key))]
  ELSE c

\* _get_async_client: the client once the asynchronous transport exists
GetAsyncClient(c) ==
  IF c.async_client = None
  THEN [c EXCEPT !.async_client = Transport(c.timeout, Bearer(c.api_key))]
  ELSE c

\* close(): the blocking transport is closed, the asynchronous one is left
\* as it is
CloseClient(c) == [c EXCEPT !.sync_client.is_closed = TRUE]

\* aclose(): both transports are closed
ACloseClient(c) ==
  LET d == [c EXCEPT !.sync_client.is_closed = TRUE]
  IN IF d.async_client # None THEN [d EXCEPT !.async_client.is_closed = TRUE] ELSE d

\* the POST of extract / extract_async through the transport it uses
PostRequest(transport, convention, p, schema, confidence_threshold) ==
  [transport |-> convention,
   method |-> "POST",
   url |-> <<BASE_URL, "/v1/extract">>,
   file |-> <<p.filename, p.file_bytes, p.content_type>>,
   output_schema |-> JsonDumps(StripTitles(ModelJsonSchema(schema))),
   confidence_threshold |-> confidence_threshold,
   authorization |-> transport.headers.Authorization,
   timeout |-> transport.timeout]

\* the files and responses the calls of Spec are tried with
CallContents == {c \in Contents : c.head = <<>> /\ c.fill \in {0, 1, MAX_FILE_SIZE + 1}}

CallNames == {<<"a", ".", "p", "d", "f">>, <<"a", ".", "t", "x", "t">>}

CallFiles == {f \in Files : f.kind # "Path" /\ f.content \in CallContents /\ f.name \in CallNames \cup {NoName}}

CallResponses ==
  { JsonResponse(200, WireBody), JsonResponse(200, TokenBody), JsonResponse(201, TokenBody),
    JsonResponse(200, Body(JObj(WireMetadata(500, 2, TRUE) @@ TokenCounts), Absent,
                           ErrorObj(JStr("EXTRACTION_FAILED"), JStr("Could not extract data from document")),
                           JNull, Absent)),
    JsonResponse(200, Body(Absent, Absent, Absent, JNull, Absent)),
    TextResponse(401, "Unauthorized"), TextResponse(200, "") }

\* no earlier call is remembered
NoCall == [mode |-> "none"]

\* no schema tree
NoTree == Absent

Init ==
  /\ file = NoFile
  /\ target = NoTarget
  /\ threshold = ""
  /\ prep = NoPrep
  /\ resp = NoResponse
  /\ outcome = NoOutcome
  /\ resp2 = NoResponse
  /\ outcome2 = NoOutcome
  /\ pc = "new"
  /\ mode = "none"
  /\ environ \in EnvValues
  /\ init_args = NoArgs
  /\ client = NoClient
  /\ scope = "none"
  /\ released = "no"
  /\ sent = <<>>
  /\ calls = 0
  /\ earlier = NoCall
  /\ json_schema = NoTree
  /\ before = NoTree
  /\ once = NoTree

\* Parsefy(api_key, timeout=timeout)
Construct(api_key, timeout) ==
  /\ pc = "new"
  /\ init_args' = [api_key |-> api_key, timeout |-> timeout]
  /\ LET r == NewClient(api_key, environ, timeout)
     IN IF IsRaise(r)
        THEN /\ outcome' = r
             /\ client' = NoClient
             /\ pc' = "failed"
        ELSE /\ outcome' = NoOutcome
             /\ client' = r.v
             /\ pc' = "idle"
  /\ UNCHANGED <<file, target, threshold, prep, resp, resp2, outcome2, mode, environ, scope,
                 released, sent, calls, earlier, json_schema, before, once>>

\* extract(file=f, schema=sch, confidence_threshold=thr) up to the POST
Extract(f, sch, thr) ==
  /\ pc = "idle"
  /\ released = "no"
  /\ calls < MaxCalls
  /\ calls' = calls + 1
  /\ mode' = "sync"
  /\ file' = f
  /\ target' = sch
  /\ threshold' = thr
  /\ prep' = PrepareFile(f)
  /\ resp' = NoResponse
  /\ IF IsRaise(prep')
     THEN /\ outcome' = prep'
          /\ sent' = <<>>
          /\ pc' = "done"
     ELSE /\ outcome' = NoOutcome
          /\ sent' = <<PostRequest(client.sync_client, "sync", prep', sch, thr)>>
          /\ pc' = "awaiting"
  /\ UNCHANGED <<resp2, outcome2, environ, init_args, client, scope, released, earlier,
                 json_schema, before, once>>

\* extract_async(file=f, schema=sch, confidence_threshold=thr) up to the POST
ExtractAsync(f, sch, thr) ==
  /\ pc = "idle"
  /\ released = "no"
  /\ calls < MaxCalls
  /\ calls' = calls + 1
  /\ mode' = "async"
  /\ file' = f
  /\ target' = sch
  /\ threshold' = thr
  /\ prep' = PrepareFile(f)
  /\ resp' = NoResponse
  /\ IF IsRaise(prep')
     THEN /\ outcome' = prep'
          /\ sent' = <<>>
          /\ pc' = "done"
          /\ client' = client
     ELSE /\ outcome' = NoOutcome
          /\ client' = GetAsyncClient(client)
          /\ sent' = <<PostRequest(client'.async_client, "async", prep', sch, thr)>>
          /\ pc' = "awaiting"
  /\ UNCHANGED <<resp2, outcome2, environ, init_args, scope, released, earlier,
                 json_schema, before, once>>

\* Receive sending the request once more when the status is not 200
Receive_Retry(r) ==
  /\ pc = "awaiting"
  /\ resp' = r
  /\ outcome' = ParseResponse(r, target)
  /\ pc' = "done"
  /\ sent' = IF IsErrorStatus(r.status_code) THEN sent \o sent ELSE sent
  /\ UNCHANGED <<file, target, threshold, prep, resp2, outcome2, mode, environ, init_args, client,
                 scope, released, calls, earlier, json_schema, before, once>>

\* the response arrives and the call returns self._parse_response(response, schema)
Receive(r) ==
  /\ pc = "awaiting"
  /\ resp' = r
  /\ outcome' = ParseResponse(r, target)
  /\ pc' = "done"
  /\ sent' = sent
  /\ UNCHANGED <<file, target, threshold, prep, resp2, outcome2, mode, environ, init_args, client,
                 scope, released, calls, earlier, json_schema, before, once>>

\* the caller has the outcome; the call's locals are gone
Finish ==
  /\ pc = "done"
  /\ released = "no"
  /\ pc' = "idle"
  /\ file' = NoFile
  /\ target' = NoTarget
  /\ threshold' = ""
  /\ prep' = NoPrep
  /\ resp' = NoResponse
  /\ outcome' = NoOutcome
  /\ sent' = <<>>
  /\ mode' = "none"
  /\ UNCHANGED <<resp2, outcome2, environ, init_args, client, scope, released, calls, earlier,
                 json_schema, before, once>>

\* the variables no release of the client touches
callVars ==
  <<file, target, threshold, prep, resp, outcome, resp2, outcome2, pc, mode, environ, init_args,
    sent, calls, earlier, json_schema, before, once>>

\* a block is left when its body has ended or a call in it has raised
BlockEnds == pc = "idle" \/ (pc = "done" /\ IsRaise(outcome))

\* `with client:` is entered on the new client: __enter__ returns self
Enter ==
  /\ pc = "idle"
  /\ calls = 0
  /\ scope = "none"
  /\ released = "no"
  /\ scope' = "with"
  /\ UNCHANGED <<callVars, client, released>>

\* the `with` block is left, normally or by an exception: __exit__ calls close()
Exit ==
  /\ scope = "with"
  /\ released = "no"
  /\ BlockEnds
  /\ client' = CloseClient(client)
  /\ released' = "__exit__"
  /\ UNCHANGED <<callVars, scope>>

\* `async with client:` is entered on the new client: __aenter__ returns self
AEnter ==
  /\ pc = "idle"
  /\ calls = 0
  /\ scope = "none"
  /\ released = "no"
  /\ scope' = "async with"
  /\ UNCHANGED <<callVars, client, released>>

\* the `async with` block is left: __aexit__ awaits aclose()
AExit ==
  /\ scope = "async with"
  /\ released = "no"
  /\ BlockEnds
  /\ client' = ACloseClient(client)
  /\ released' = "__aexit__"
  /\ UNCHANGED <<callVars, scope>>

\* client.close() outside a block
Close ==
  /\ pc = "idle"
  /\ scope = "none"
  /\ released = "no"
  /\ client' = CloseClient(client)
  /\ released' = "close"
  /\ UNCHANGED <<callVars, scope>>

\* await client.aclose() outside a block
AClose ==
  /\ pc = "idle"
  /\ scope = "none"
  /\ released = "no"
  /\ client' = ACloseClient(client)
  /\ released' = "aclose"
  /\ UNCHANGED <<callVars, scope>>

Next ==
  \/ \E k \in ApiKeyArgs, t \in Timeouts : Construct(k, t)
  \/ \E f \in CallFiles, sch \in SchemaTypes, thr \in Thresholds : Extract(f, sch, thr)
  \/ \E f \in CallFiles, sch \in SchemaTypes, thr \in Thresholds : ExtractAsync(f, sch, thr)
  \/ \E r \in CallResponses : Receive(r)
  \/ Finish
  \/ Enter
  \/ Exit
  \/ AEnter
  \/ AExit
  \/ Close
  \/ AClose

Spec == Init /\ [][Next]_vars

(***************************************************************************)
(* The input gate alone: _prepare_file on every file of Files.             *)
(***************************************************************************)
InitGate ==
  /\ file \in Files
  /\ target = NoTarget
  /\ threshold = ""
  /\ prep = NoPrep
  /\ resp = NoResponse
  /\ outcome = NoOutcome
  /\ resp2 = NoResponse
  /\ outcome2 = NoOutcome
  /\ pc = "gate"
  /\ mode = "none"
  /\ environ = None
  /\ init_args = [api_key |-> JStr("test_key"), timeout |-> DefaultTimeout]
  /\ client = NewClient(JStr("test_key"), None, DefaultTimeout).v
  /\ scope = "none"
  /\ released = "no"
  /\ sent = <<>>
  /\ calls = 0
  /\ earlier = NoCall
  /\ json_schema = NoTree
  /\ before = NoTree
  /\ once = NoTree

GatePrepare ==
  /\ pc = "gate"
  /\ prep' = PrepareFile(file)
  /\ pc' = "gated"
  /\ UNCHANGED <<file, target, resp, outcome, resp2, outcome2, mode, client, sent, calls,
                 threshold, environ, init_args, scope, released, earlier, json_schema, before, once>>

NextGate == GatePrepare

SpecGate == InitGate /\ [][NextGate]_vars

(***************************************************************************)
(* The decoder alone: _parse_response on every response of Responses, and  *)
(* again on the same response without its `_meta` key.                     *)
(***************************************************************************)
InitDecode ==
  /\ file = NoFile
  /\ target \in TargetTypes
  /\ threshold = ""
  /\ prep = NoPrep
  /\ resp \in Responses
  /\ outcome = NoOutcome
  /\ resp2 = NoResponse
  /\ outcome2 = NoOutcome
  /\ pc = "decode"
  /\ mode = "none"
  /\ environ = None
  /\ init_args = [api_key |-> JStr("test_key"), timeout |-> DefaultTimeout]
  /\ client = NewClient(JStr("test_key"), None, DefaultTimeout).v
  /\ scope = "none"
  /\ released = "no"
  /\ sent = <<>>
  /\ calls = 0
  /\ earlier = NoCall
  /\ json_schema = NoTree
  /\ before = NoTree
  /\ once = NoTree

Decode ==
  /\ pc = "decode"
  /\ outcome' = ParseResponse(resp, target)
  /\ pc' = "decoded"
  /\ UNCHANGED <<file, target, prep, resp, resp2, outcome2, mode, client, sent, calls,
                 threshold, environ, init_args, scope, released, earlier, json_schema, before, once>>

DecodeWithoutMeta ==
  /\ pc = "decoded"
  /\ resp.isJson
  /\ HasKey(resp.json, "_meta")
  /\ resp2' = [resp EXCEPT !.json = WithoutKey(resp.json, "_meta")]
  /\ outcome2' = ParseResponse(resp2', target)
  /\ pc' = "compared"
  /\ UNCHANGED <<file, target, prep, resp, outcome, mode, client, sent, calls,
                 threshold, environ, init_args, scope, released, earlier, json_schema, before, once>>

NextDecode == Decode \/ DecodeWithoutMeta

SpecDecode == InitDecode /\ [][NextDecode]_vars

(***************************************************************************)
(* The two calling conventions side by side: one call, then the call of    *)
(* the other convention on the same client with the same arguments and the *)
(* same response.                                                          *)
(***************************************************************************)
InitPair ==
  /\ file = NoFile
  /\ target = NoTarget
  /\ threshold = ""
  /\ prep = NoPrep
  /\ resp = NoResponse
  /\ outcome = NoOutcome
  /\ resp2 = NoResponse
  /\ outcome2 = NoOutcome
  /\ pc = "idle"
  /\ mode = "none"
  /\ environ = None
  /\ \E k \in ApiKeyArgs \ {None, JStr("")}, t \in Timeouts :
       /\ init_args = [api_key |-> k, timeout |-> t]
       /\ client = NewClient(k, None, t).v
  /\ scope = "none"
  /\ released = "no"
  /\ sent = <<>>
  /\ calls = 0
  /\ earlier = NoCall
  /\ json_schema = NoTree
  /\ before = NoTree
  /\ once = NoTree

ExtractFirst(f, sch, thr) == earlier = NoCall /\ Extract(f, sch, thr)

ExtractAsyncFirst(f, sch, thr) == earlier = NoCall /\ ExtractAsync(f, sch, thr)

ReceiveFirst(r) == earlier = NoCall /\ Receive(r)

\* the first call is over: its arguments, request, response and outcome are
\* kept for the comparison
Remember ==
  /\ pc = "done"
  /\ earlier = NoCall
  /\ earlier' = [mode |-> mode, file |-> file, target |-> target, threshold |-> threshold,
                 resp |-> resp, sent |-> sent, outcome |-> outcome]
  /\ pc' = "idle"
  /\ file' = NoFile
  /\ target' = NoTarget
  /\ threshold' = ""
  /\ prep' = NoPrep
  /\ resp' = NoResponse
  /\ outcome' = NoOutcome
  /\ sent' = <<>>
  /\ mode' = "none"
  /\ UNCHANGED <<resp2, outcome2, environ, init_args, client, scope, released, calls,
                 json_schema, before, once>>

\* extract with the arguments of an earlier extract_async
ExtractSecond ==
  /\ earlier.mode = "async"
  /\ Extract(earlier.file, earlier.target, earlier.threshold)

\* extract_async with the arguments of an earlier extract
ExtractAsyncSecond ==
  /\ earlier.mode = "sync"
  /\ ExtractAsync(earlier.file, earlier.target, earlier.threshold)

\* the server answers the second call as it answered the first
ReceiveSame ==
  /\ earlier # NoCall
  /\ Receive(earlier.resp)

NextPair ==
  \/ \E f \in CallFiles, sch \in TargetTypes, thr \in Thresholds : ExtractFirst(f, sch, thr)
  \/ \E f \in CallFiles, sch \in TargetTypes, thr \in Thresholds : ExtractAsyncFirst(f, sch, thr)
  \/ \E r \in CallResponses : ReceiveFirst(r)
  \/ Remember
  \/ ExtractSecond
  \/ ExtractAsyncSecond
  \/ ReceiveSame

SpecPair == InitPair /\ [][NextPair]_vars

(***************************************************************************)
(* Title stripping alone: _strip_titles on every tree of SchemaTrees, and  *)
(* once more on what it left.                                              *)
(***************************************************************************)
\* the nodes the trees end in: field schemas with and without a title, and a
\* leaf that is no mapping
LeafSchemas ==
  { JObj(("title" :> JStr("Name")) @@ ("type" :> JStr("string"))),
    JObj(("description" :> JStr("A numeric value")) @@ ("title" :> JStr("Value")) @@ ("type" :> JStr("integer"))),
    JObj("type" :> JStr("null")),
    JStr("title") }

\* the trees one level above t: t as a property, as the items of an array, as
\* an alternative of anyOf, as an element of a bare list, and as a property
\* that a required list names
Wrap(t) ==
  { JObj(("title" :> JStr("Parent")) @@ ("type" :> JStr("object")) @@ ("properties" :> JObj("child" :> t))),
    JObj(("title" :> JStr("Items")) @@ ("type" :> JStr("array")) @@ ("items" :> t)),
    JObj(("description" :> JStr("Optional notes")) @@ ("default" :> JNull)
         @@ ("anyOf" :> JList(<<t, JObj("type" :> JStr("null"))>>))),
    JList(<<t>>),
    JObj(("required" :> JList(<<JStr("name")>>)) @@ ("properties" :> JObj("name" :> t))) }

RECURSIVE TreesOfDepth(_)
TreesOfDepth(d) ==
  IF d = 0 THEN LeafSchemas
  ELSE LeafSchemas \cup UNION {Wrap(t) : t \in TreesOfDepth(d - 1)}

SchemaTrees == TreesOfDepth(MaxDepth) \cup {ModelJsonSchema(s) : s \in SchemaTypes}

InitStrip ==
  /\ file = NoFile
  /\ target = NoTarget
  /\ threshold = ""
  /\ prep = NoPrep
  /\ resp = NoResponse
  /\ outcome = NoOutcome
  /\ resp2 = NoResponse
  /\ outcome2 = NoOutcome
  /\ pc = "strip"
  /\ mode = "none"
  /\ environ = None
  /\ init_args = NoArgs
  /\ client = NoClient
  /\ scope = "none"
  /\ released = "no"
  /\ sent = <<>>
  /\ calls = 0
  /\ earlier = NoCall
  /\ json_schema \in SchemaTrees
  /\ before = json_schema
  /\ once = NoTree

\* self._strip_titles(json_schema): the tree is changed in place
Strip ==
  /\ pc = "strip"
  /\ json_schema' = StripTitles(json_schema)
  /\ once' = json_schema'
  /\ pc' = "stripped"
  /\ UNCHANGED <<file, target, threshold, prep, resp, outcome, resp2, outcome2, mode, environ,
                 init_args, client, scope, released, sent, calls, earlier, before>>

\* self._strip_titles(json_schema) a second time on the same tree
StripAgain ==
  /\ pc = "stripped"
  /\ json_schema' = StripTitles(json_schema)
  /\ pc' = "stripped twice"
  /\ UNCHANGED <<file, target, threshold, prep, resp, outcome, resp2, outcome2, mode, environ,
                 init_args, client, scope, released, sent, calls, earlier, before, once>>

NextStrip == Strip \/ StripAgain

SpecStrip == InitStrip /\ [][NextStrip]_vars

(***************************************************************************)
(* The input gate as the specification words it: what makes a file fail.   *)
(***************************************************************************)
IsPath(f) == f.kind \in {"str", "Path"}

\* the file carries a name whose extension is not one of the allow-list
ExtensionNotAllowed(f) == f.named /\ Lower(PathSuffix(f.name)) \notin {DotPdf, DotDocx}

\* path does not exist, extension not allowed, zero-length content, or content
\* longer than the size ceiling
FailsInputGate(f) ==
  \/ IsPath(f) /\ ~f.exists
  \/ ExtensionNotAllowed(f)
  \/ ~(IsPath(f) /\ ~f.exists) /\ ByteLen(f.content) = 0
  \/ ~(IsPath(f) /\ ~f.exists) /\ ByteLen(f.content) > 10 * 1024 * 1024

IsValidationError(o) == o.st = "raise" /\ o.exc = "ValidationError"

\* C1: in extract and extract_async, whenever the file argument fails the
\* input gate (missing path, extension not allowed, empty or oversized content)
\* the call ends in ValidationError and has issued no HTTP request.
C1_GateFailureSendsNothing ==
  (pc \in {"awaiting", "done"} /\ FailsInputGate(file))
    => (pc = "done" /\ IsValidationError(outcome) /\ sent = <<>>)

\* C2: for every file argument that carries a file name, a name whose extension
\* is not in the allow-list {.pdf, .docx} yields ValidationError, and an accepted
\* file's content-type is the allow-list's entry for its extension.
C2_ContentTypeOnlyFromAllowList ==
  (pc = "gated" /\ file.named)
    => /\ ExtensionNotAllowed(file) => IsValidationError(prep)
       /\ prep.st = "ok" =>
            /\ Lower(PathSuffix(file.name)) \in DOMAIN MIME_TYPES
            /\ prep.content_type = MIME_TYPES[Lower(PathSuffix(file.name))]

\* the checks of the gate other than the two size checks
PassesOtherChecks(f) == (IsPath(f) => f.exists) /\ ~ExtensionNotAllowed(f)

\* C3: for content that otherwise passes the gate, _prepare_file accepts it iff
\* its length n satisfies 1 <= n <= 10 MiB; length 0 is rejected as empty and
\* every length above 10 MiB as exceeding the maximum size.
C3_SizeWindow ==
  (pc = "gated" /\ PassesOtherChecks(file))
    => LET n == ByteLen(file.content)
       IN /\ prep.st = "ok" <=> (1 <= n /\ n <= 10 * 1024 * 1024)
          /\ n = 0 => (IsValidationError(prep) /\ prep.msg = "File is empty.")
          /\ n > 10 * 1024 * 1024 =>
               (IsValidationError(prep) /\ prep.msg = "File size exceeds maximum allowed size.")

\* a file of exactly 10 MiB, part explicit bytes and part filler, is accepted
C3_Witness ==
  /\ pc = "gated"
  /\ PassesOtherChecks(file)
  /\ file.content.head # <<>>
  /\ ByteLen(file.content) = 10 * 1024 * 1024
  /\ prep.st = "ok"

\* s ends with e
EndsWith(s, e) == Len(e) <= Len(s) /\ SubSeq(s, Len(s) - Len(e) + 1, Len(s)) = e

\* the base name of a path: its longest tail without a separator
RefBaseName(p) ==
  LET tails == {k \in 0..Len(p) : \A i \in (Len(p) - k + 1)..Len(p) : p[i] # "/"}
      k == CHOOSE x \in tails : \A y \in tails : y <= x
  IN SubSeq(p, Len(p) - k + 1, Len(p))

\* the MIME type of the lower-cased extension
RefMimeType(p) ==
  IF EndsWith(Lower(p), <<".", "p", "d", "f">>) THEN "application/pdf"
  ELSE IF EndsWith(Lower(p), <<".", "d", "o", "c", "x">>)
  THEN "application/vnd.openxmlformats-officedocument.wordprocessingml.document"
  ELSE "none"

\* C4: for every accepted input, _prepare_file returns, for a path, (base name
\* of the path, the file's bytes unchanged, the MIME type of the lower-cased
\* extension) and, for a raw byte buffer, ("document.pdf", the same bytes,
\* "application/pdf").
C4_PreparedTriple ==
  (pc = "gated" /\ prep.st = "ok")
    => /\ IsPath(file) =>
            /\ prep.filename = RefBaseName(file.name)
            /\ prep.file_bytes = file.content
            /\ prep.content_type = RefMimeType(file.name)
       /\ file.kind = "bytes" =>
            /\ prep.filename = <<"d", "o", "c", "u", "m", "e", "n", "t", ".", "p", "d", "f">>
            /\ prep.file_bytes = file.content
            /\ prep.content_type = "application/pdf"

\* an accepted path with a directory part and an upper-case DOCX extension
C4_Witness ==
  /\ pc = "gated"
  /\ prep.st = "ok"
  /\ file.kind = "Path"
  /\ RFind(file.name, "/") > 0
  /\ Lower(file.name) # file.name
  /\ prep.content_type = DOCX_MIME
  /\ prep.filename # file.name

(***************************************************************************)
(* The decoder's claims.                                                   *)
(***************************************************************************)
Decoded == pc \in {"decoded", "compared"}

IsAPIError(o) == o.st = "raise" /\ o.exc = "APIError"

\* C5: for every response whose status is outside 200-299, _parse_response
\* raises APIError with status_code equal to the response status and response
\* equal to the body (parsed JSON when the body parses, the raw text otherwise);
\* it never returns an ExtractResult.
C5_NonSuccessStatusRaisesAPIError ==
  (Decoded /\ resp.status_code \notin 200..299)
    => /\ IsAPIError(outcome)
       /\ outcome.status_code = resp.status_code
       /\ outcome.response = IF resp.isJson THEN resp.json ELSE JStr(resp.text)

\* a 401 with a JSON body and a 500 with a body that is no JSON both happen
C5_Witness ==
  /\ Decoded
  /\ IsAPIError(outcome)
  /\ \/ resp.status_code = 401 /\ resp.isJson /\ outcome.response = JObj("error" :> JStr("Unauthorized"))
     \/ resp.status_code = 500 /\ ~resp.isJson /\ outcome.response = JStr("Unauthorized")

\* C6: every response with a status in 200-299 reaches the decoding steps and
\* is never reported as a transport failure (APIError).
C6_SuccessStatusNeverAPIError ==
  (Decoded /\ resp.status_code \in 200..299) => ~IsAPIError(outcome)

\* C7: for every successfully decoded body, result.verification is present
\* exactly when the body has a verification key, and then carries the body's
\* status, counters and checks_run entries in order.
C7_VerificationDecoded ==
  (Decoded /\ outcome.st = "result")
    => /\ outcome.verification # None <=> HasKey(resp.json, "verification")
       /\ HasKey(resp.json, "verification") =>
            LET v == resp.json.o["verification"].o
            IN /\ outcome.verification.status = v["status"]
               /\ outcome.verification.checks_passed = v["checks_passed"]
               /\ outcome.verification.checks_failed = v["checks_failed"]
               /\ outcome.verification.cannot_verify_count = v["cannot_verify_count"]
               /\ Len(outcome.verification.checks_run) = Len(v["checks_run"].l)

WireKeys == {"processing_time_ms", "credits", "fallback_triggered"}

\* the body is an object whose metadata block has the three fields of the wire
\* contract, each of its type
HasWireMetadata(body) ==
  /\ HasKey(body, "metadata")
  /\ body.o["metadata"].t = "obj"
  /\ WireKeys \subseteq DOMAIN body.o["metadata"].o
  /\ body.o["metadata"].o["processing_time_ms"].t = "int"
  /\ body.o["metadata"].o["credits"].t = "int"
  /\ body.o["metadata"].o["fallback_triggered"].t = "bool"

\* the value of a top-level key, null when the key is missing
KeyOrNull(body, k) == IF HasKey(body, k) THEN body.o[k] ELSE JNull

\* C8: a 200 response whose metadata block holds exactly processing_time_ms,
\* credits and fallback_triggered, with an object that validates against the
\* target type, decodes into an ExtractResult carrying those three values and
\* the object's fields.
C8_WireMetadataSuffices ==
  (/\ Decoded
   /\ resp.status_code = 200
   /\ resp.isJson
   /\ HasWireMetadata(resp.json)
   /\ DOMAIN resp.json.o["metadata"].o = WireKeys
   /\ KeyOrNull(resp.json, "object") # JNull
   /\ ~IsRaise(ModelValidate(target, KeyOrNull(resp.json, "object")))
   /\ ~IsRaise(ParseMeta(resp.json))
   /\ ~IsRaise(ParseError(resp.json)))
    => /\ outcome.st = "result"
       /\ outcome.metadata = [k \in WireKeys |-> resp.json.o["metadata"].o[k]]
       /\ outcome.data = ModelValidate(target, KeyOrNull(resp.json, "object")).v

\* C9: for every body that decodes successfully with a `_meta` block, the same
\* body without `_meta` decodes successfully too, with meta absent and data,
\* metadata and error as in the first decode.
C9_MetaOptional ==
  (pc = "compared" /\ outcome.st = "result")
    => /\ outcome2.st = "result"
       /\ outcome2.meta = None
       /\ outcome2.data = outcome.data
       /\ outcome2.metadata = outcome.metadata
       /\ outcome2.error = outcome.error

\* a body whose `_meta` block decoded into a confidence record, decoded again
\* without the block
C9_Witness ==
  /\ pc = "compared"
  /\ outcome.st = "result"
  /\ outcome.meta # None
  /\ outcome.meta.field_confidence # <<>>
  /\ outcome.data # None
  /\ outcome2.st = "result"
  /\ ~HasKey(resp2.json, "_meta")

\* an error block {code, message} of two strings
IsPopulatedError(e) ==
  /\ e.t = "obj"
  /\ DOMAIN e.o = {"code", "message"}
  /\ e.o["code"].t = "str"
  /\ e.o["message"].t = "str"

\* C10: data and error are decided independently, without exclusivity: object
\* null with a populated error returns a result with data absent and the
\* error's code and message; both non-null gives both populated; both null or
\* missing gives both absent; none of the three fails.
C10_DataAndErrorIndependent ==
  (/\ Decoded
   /\ resp.status_code = 200
   /\ resp.isJson
   /\ HasWireMetadata(resp.json)
   /\ ~IsRaise(ParseMeta(resp.json)))
    => LET obj == KeyOrNull(resp.json, "object")
           err == KeyOrNull(resp.json, "error")
       IN /\ (obj = JNull /\ IsPopulatedError(err)) =>
               /\ outcome.st = "result"
               /\ outcome.data = None
               /\ outcome.error = [code |-> err.o["code"], message |-> err.o["message"]]
          /\ (obj # JNull /\ ~IsRaise(ModelValidate(target, obj)) /\ IsPopulatedError(err)) =>
               /\ outcome.st = "result"
               /\ outcome.data # None
               /\ outcome.error = [code |-> err.o["code"], message |-> err.o["message"]]
          /\ (obj = JNull /\ err = JNull) =>
               /\ outcome.st = "result"
               /\ outcome.data = None
               /\ outcome.error = None

\* the exception classes of errors.py: ParsefyError and its subclasses
ParsefyErrors == {"ParsefyError", "APIError", "ExtractionError", "ValidationError"}

\* C11: every failure the constructor, extract or extract_async reports to
\* the caller is a validation, transport or decode failure and an instance of
\* ParsefyError: a body that lacks a required block or has a mistyped
\* sub-field is a ParsefyError-derived decode failure.
C11_FailuresAreParsefyErrors ==
  IsRaise(outcome) => outcome.exc \in ParsefyErrors

\* the two requests agree in everything but the transport that carries them
SameRequest(a, b) ==
  /\ a.method = b.method
  /\ a.url = b.url
  /\ a.file = b.file
  /\ a.output_schema = b.output_schema
  /\ a.confidence_threshold = b.confidence_threshold
  /\ a.authorization = b.authorization
  /\ a.timeout = b.timeout

\* equal results, or errors of the same kind
SameOutcome(a, b) ==
  /\ a.st = b.st
  /\ IsRaise(a) => a.exc = b.exc
  /\ ~IsRaise(a) => a = b

\* C12: extract and extract_async are observationally equivalent: with the
\* same client configuration, file, target type, confidence_threshold and
\* server response, the two issue the same request (URL, file part,
\* output_schema, confidence_threshold, Authorization header, timeout) and end
\* in the same outcome.
C12_ConventionsEquivalent ==
  (earlier # NoCall /\ mode # "none")
    => /\ mode # earlier.mode
       /\ Len(sent) = Len(earlier.sent)
       /\ \A i \in DOMAIN sent : SameRequest(sent[i], earlier.sent[i])
       /\ pc = "done" => SameOutcome(outcome, earlier.outcome)

\* an extract_async call has ended in a result that an extract call with the
\* same arguments and response ended in, on a client with its own timeout
C12_Witness ==
  /\ earlier # NoCall
  /\ earlier.mode = "sync"
  /\ mode = "async"
  /\ pc = "done"
  /\ outcome.st = "result"
  /\ Len(sent) = 1
  /\ client.timeout # DefaultTimeout

\* C13: every extract or extract_async call whose file passes the input gate
\* issues exactly one HTTP POST whatever the response: an error status or a
\* decode failure is reported without a second request.
C13_ExactlyOnePost ==
  (pc \in {"awaiting", "done"} /\ prep.st = "ok")
    => /\ Len(sent) = 1
       /\ sent[1].method = "POST"

\* a call has ended in APIError after its one request
C13_Witness ==
  /\ pc = "done"
  /\ prep.st = "ok"
  /\ IsErrorStatus(resp.status_code)
  /\ IsRaise(outcome)
  /\ Len(sent) = 1

\* every transport the client has created is closed
AllTransportsClosed(c) ==
  /\ c.sync_client.is_closed
  /\ c.async_client # None => c.async_client.is_closed

\* C14: after any sequence of extract and extract_async calls, leaving a
\* `with` block (normally or by an exception), leaving an `async with` block
\* or calling close() leaves every transport the client has created closed.
C14_ReleaseClosesEveryTransport ==
  released \in {"close", "__exit__", "__aexit__"} => AllTransportsClosed(client)

\* the credential the constructor is given: the api_key argument when it is a
\* non-empty string, else the value of PARSEFY_API_KEY
Credential ==
  IF init_args.api_key \notin {None, JStr("")} THEN init_args.api_key ELSE environ

HasCredential == Credential \notin {None, JStr("")}

\* C15: constructing a client succeeds iff a non-empty credential is
\* available (the api_key argument, else PARSEFY_API_KEY); otherwise
\* ValidationError is raised and no transport exists.  Every request the
\* client issues, through either transport, carries
\* Authorization: Bearer <that credential>.
C15_CredentialRequiredAndSent ==
  pc # "new"
    => /\ (client # NoClient) <=> HasCredential
       /\ ~HasCredential => (pc = "failed" /\ IsRaise(outcome) /\ outcome.exc = "ValidationError")
       /\ HasCredential => client.sync_client.headers.Authorization = <<"Bearer ", Credential.s>>
       /\ \A i \in DOMAIN sent : sent[i].authorization = <<"Bearer ", Credential.s>>

\* a request is out through the asynchronous transport of a client built with
\* an empty api_key argument and the credential of the environment
C15_Witness ==
  /\ pc = "awaiting"
  /\ mode = "async"
  /\ init_args.api_key = JStr("")
  /\ environ = JStr("env_key")
  /\ Len(sent) = 1

\* some mapping of the tree, at any depth, has a `title` key
RECURSIVE HasTitleKey(_)
HasTitleKey(v) ==
  CASE v.t = "obj" -> "title" \in DOMAIN v.o \/ \E k \in DOMAIN v.o : HasTitleKey(v.o[k])
    [] v.t = "list" -> \E i \in DOMAIN v.l : HasTitleKey(v.l[i])
    [] OTHER -> FALSE

Stripped == pc \in {"stripped", "stripped twice"}

\* C16: after _strip_titles no mapping at any depth, reached through mapping
\* values or sequence elements, has a `title` key, and a second run leaves the
\* tree equal to the result of the first.
C16_NoTitleSurvives ==
  /\ Stripped => ~HasTitleKey(json_schema)
  /\ pc = "stripped twice" => json_schema = once

\* _strip_titles has run twice on a tree that had a title inside a list
C16_Witness ==
  /\ pc = "stripped twice"
  /\ before.t = "obj"
  /\ "anyOf" \in DOMAIN before.o
  /\ HasTitleKey(before.o["anyOf"])
  /\ before # once

\* one step of the path to a node: a key of a mapping or an index of a list
PathStep(k, i) == [k |-> k, i |-> i]

\* the `required` and `description` entries of the tree, each with the path
\* of the mapping that holds it
RECURSIVE Annotations(_, _)
Annotations(v, path) ==
  CASE v.t = "obj" ->
         {<<path, k, v.o[k]>> : k \in DOMAIN v.o \cap {"required", "description"}}
           \cup UNION {Annotations(v.o[k], Append(path, PathStep(k, 0))) : k \in DOMAIN v.o}
    [] v.t = "list" ->
         UNION {Annotations(v.l[i], Append(path, PathStep("", i))) : i \in DOMAIN v.l}
    [] OTHER -> {}

\* C17: _strip_titles removes only `title` keys: every `required` list and
\* every field's `description` present before the call is present and equal
\* after it.
C17_AnnotationsPreserved ==
  Stripped => Annotations(before, <<>>) \subseteq Annotations(json_schema, <<>>)

\* a float held in hundredths lies in [0, 1]
InUnitInterval(x) == x.t = "float" /\ 0 <= x.h /\ x.h <= 100

\* C18: every ExtractResult returned with meta present has its overall
\* confidence_score and each field_confidence score in [0, 1]; a response with
\* a score outside that range never yields a result holding it.
C18_ScoresInUnitInterval ==
  (Decoded /\ outcome.st = "result" /\ outcome.meta # None)
    => /\ InUnitInterval(outcome.meta.confidence_score)
       /\ \A i \in DOMAIN outcome.meta.field_confidence :
            InUnitInterval(outcome.meta.field_confidence[i].score)

\* C19: for every 200 body whose error key is non-null (an empty object or
\* another falsy value included), _parse_response returns a result with error
\* populated or raises; it never returns a result with error absent.
C19_ErrorBlockNeverDropped ==
  (/\ Decoded
   /\ resp.status_code = 200
   /\ resp.isJson
   /\ KeyOrNull(resp.json, "error") # JNull)
    => ~(outcome.st = "result" /\ outcome.error = None)

\* the kinds of error schema.model_validate raises on the object payloads of
\* the model
ObjectFailureKinds(schema) ==
  {ModelValidate(schema, o).exc : o \in {x \in ObjectBlocks \ {Absent} : IsRaise(ModelValidate(schema, x))}}

\* the decode failed in one of the envelope blocks: metadata, _meta or error
EnvelopeFailed(data) ==
  IsRaise(ParseMetadata(data)) \/ IsRaise(ParseMeta(data)) \/ IsRaise(ParseError(data))

\* C20: a failure of the object payload to validate against the target type is
\* distinguishable by its kind: no malformed envelope block (metadata, _meta,
\* a field_confidence entry, error) raises an error of the kind that
\* schema.model_validate raises.
C20_ObjectFailureDistinct ==
  (/\ Decoded
   /\ resp.status_code = 200
   /\ resp.isJson
   /\ outcome.st = "raise"
   /\ EnvelopeFailed(resp.json))
    => outcome.exc \notin ObjectFailureKinds(target)

\* the JSON Schema that the request carries in its output_schema field
WireSchema(request) == request.output_schema.of

\* every name of a `required` list is a key of the sibling `properties`
\* mapping, in v and in every mapping below it
RECURSIVE RequiredAreProperties(_)
RequiredAreProperties(v) ==
  CASE v.t = "obj" ->
         /\ ("required" \in DOMAIN v.o /\ v.o["required"].t = "list")
              => /\ HasKey(v, "properties")
                 /\ \A i \in DOMAIN v.o["required"].l :
                      HasKey(v.o["properties"], v.o["required"].l[i].s)
         /\ \A k \in DOMAIN v.o : RequiredAreProperties(v.o[k])
    [] v.t = "list" -> \A i \in DOMAIN v.l : RequiredAreProperties(v.l[i])
    [] OTHER -> TRUE

\* every field of the type has its property definition in the schema, with
\* the field's description
FieldsAreProperties(schema, v) ==
  /\ HasKey(v, "properties")
  /\ \A i \in DOMAIN schema.fields :
       LET fld == schema.fields[i]
       IN /\ HasKey(v.o["properties"], fld.name)
          /\ KeyOrNull(v.o["properties"].o[fld.name], "description") = JStr(fld.description)

\* C21: the wire schema sent by extract is faithful to the target type for
\* every field name: each name in a `required` list of the projected schema
\* is a key of the sibling `properties` mapping, and every field of the
\* target type, a field named `title` included, keeps its property definition
\* and description after title-stripping.
C21_WireSchemaFaithful ==
  \A i \in DOMAIN sent :
    /\ RequiredAreProperties(WireSchema(sent[i]))
    /\ FieldsAreProperties(target, WireSchema(sent[i]))

====
